---- MODULE Spec2Model ----
(***************************************************************************)
(* State-machine model of CloudTaskManager (src/backend/task_manager.py).  *)
(*                                                                         *)
(* The manager runs on one asyncio event loop.  create_task, execute_task  *)
(* and cancel_task contain no suspending await, so each is one atomic      *)
(* action.  An execution routine (_execute_task_steps) is an asyncio.Task: *)
(* it is scheduled by execute_task, runs when the loop picks it, and       *)
(* suspends only inside a step handler's asyncio.sleep.  Every segment of  *)
(* a routine between two suspensions is one atomic action.                 *)
(***************************************************************************)
EXTENDS Integers, Sequences, FiniteSets, TLC

\* ---------------------------------------------------------------- bounds
MaxTasks    == 1    \* tasks ever created
MaxSteps    == 2    \* steps of one task
MaxRoutines == 3    \* execution routines ever created
MaxClock    == 1    \* ticks of the wall clock
PolicySteps == 6    \* steps of a task in the runs of SpecPolicy
HistCap     == 2    \* capacity of the history in the runs of SpecHistory
MaxAppends  == 5    \* appends to the history in the runs of SpecHistory
HistIds     == 3    \* task ids of the entries appended in SpecHistory
StoreTasks  == 2    \* tasks ever created in the runs of SpecStore
StoreSteps  == 1    \* steps of one task in the runs of SpecStore
MaxWords    == 2    \* words of an OCR text in the runs of SpecAnalyze
DecideSteps == 7    \* total_steps of a task in the runs of SpecDecide

\* ------------------------------------------------------ program constants
max_history == 1000

PENDING    == "pending"
PROCESSING == "processing"
COMPLETED  == "completed"
FAILED     == "failed"
CANCELLED  == "cancelled"
TaskStatus == {PENDING, PROCESSING, COMPLETED, FAILED, CANCELLED}

LOW    == "low"
MEDIUM == "medium"
HIGH   == "high"
URGENT == "urgent"
TaskPriority == {LOW, MEDIUM, HIGH, URGENT}

\* Optional[...] fields that are not set
None == -1

\* error_message of a task: None until an except clause stores str(e)
NoMessage == "<None>"
\* str(e) of the exceptions that may be raised: an exception made without
\* arguments, such as MemoryError(), has the empty string
ExceptionMessages == {"", "error"}

\* floats that the code computes as a quotient of two ints: <<num, den>>
Ratio(n, d) == <<n, d>>
Zero == <<0, 1>>
One  == <<1, 1>>
RatioEq(a, b) == a[1] * b[2] = b[1] * a[2]

\* ------------------------------------------------------------------ input
\* What running a step does:
\*   "ok"   the handler sleeps (the routine suspends once) and returns;
\*   "bad"  the handler raises before it suspends (WAIT with a non-numeric
\*          duration: asyncio.sleep raises TypeError);
\*   "boom" an Exception leaves _execute_step at the await and reaches the
\*          per-step except clause of _execute_task_steps.
StepKinds == {"ok", "bad", "boom"}

\* TaskStep as sent in a TaskRequest: status defaults to PENDING
TaskStep(kind, critical) ==
    [kind |-> kind, critical |-> critical, status |-> PENDING,
     result |-> "none", error_message |-> FALSE]

\* parameters["critical"] is read only when a step fails in the routine
StepSpecs == {TaskStep(k, FALSE) : k \in StepKinds} \cup {TaskStep("boom", TRUE)}

StepLists == UNION {[1..n -> StepSpecs] : n \in 0..MaxSteps}

Priorities == {MEDIUM, HIGH}

TaskRequest == [priority : Priorities, steps : StepLists, auto_execute : BOOLEAN]

\* ------------------------------------------------------------------ state
VARIABLES
    tasks,          \* self.tasks: task id -> TaskResponse (ids are 1..Len)
    active_tasks,   \* self.active_tasks: task id -> routine (asyncio.Task)
    task_history,   \* self.task_history
    appended,       \* every entry _add_to_history has appended, oldest first
    routines,       \* every asyncio.Task made by execute_task, by creation order
    now,            \* datetime.now()
    last            \* the operation that made the last step: its name, the task
                    \* id it was given, what it returned, and the status the
                    \* task had when it was called

vars == <<tasks, active_tasks, task_history, appended, routines, now, last>>

TaskIds == 1..MaxTasks
\* the ids a caller may pass: one more than can be stored, so that an id
\* that is not in the store always exists
RequestIds == 1..(MaxTasks + 1)
Known(id) == id \in 1..Len(tasks)

\* dict helpers
Put(d, k, v) == [x \in (DOMAIN d) \cup {k} |-> IF x = k THEN v ELSE d[x]]
Del(d, k)    == [x \in (DOMAIN d) \ {k} |-> d[x]]

\* ------------------------------------------------------------- create_task
\* a TaskResponse built with pending_steps=0 instead of len(steps)
TaskResponse_NoPending(id, req, t) ==
    [id |-> id, priority |-> req.priority, status |-> PENDING,
     steps |-> req.steps, progress |-> Zero,
     created_at |-> t, updated_at |-> t,
     started_at |-> None, completed_at |-> None,
     success_rate |-> Zero, error_message |-> NoMessage,
     total_steps |-> Len(req.steps), completed_steps |-> 0,
     failed_steps |-> 0, pending_steps |-> 0]

\* the TaskResponse built by create_task
TaskResponse(id, req, t) ==
    [id |-> id, priority |-> req.priority, status |-> PENDING,
     steps |-> req.steps, progress |-> Zero,
     created_at |-> t, updated_at |-> t,
     started_at |-> None, completed_at |-> None,
     success_rate |-> Zero, error_message |-> NoMessage,
     total_steps |-> Len(req.steps), completed_steps |-> 0,
     failed_steps |-> 0, pending_steps |-> Len(req.steps)]

\* the coroutine object alone, never handed to the event loop
NewRoutine_NotScheduled(id) ==
    [task_id |-> id, pc |-> "created", i |-> 0,
     completed_steps |-> 0, failed_steps |-> 0, must_cancel |-> FALSE]

\* the asyncio.Task made by asyncio.create_task(self._execute_task_steps(id)):
\* scheduled, not yet run; completed_steps and failed_steps are the
\* routine's local counters, i the step it is suspended in
NewRoutine(id) ==
    [task_id |-> id, pc |-> "scheduled", i |-> 0,
     completed_steps |-> 0, failed_steps |-> 0, must_cancel |-> FALSE]

\* ------------------------------------------------------------ execute_task
\* execute_task without the write of started_at (line 95 left out)
ExecuteTaskOn_KeepStartedAt(ts, act, rs, id, t) ==
    IF ts[id].status = PROCESSING
    THEN [tasks |-> ts, active |-> act, routines |-> rs, ret |-> "already_running"]
    ELSE [tasks |-> [ts EXCEPT ![id].status = PROCESSING,
                               ![id].updated_at = t],
          active |-> Put(act, id, Len(rs) + 1),
          routines |-> Append(rs, NewRoutine(id)),
          ret |-> "started"]

\* execute_task without the test for PROCESSING (lines 90-91 left out)
ExecuteTaskOn_NoGuard(ts, act, rs, id, t) ==
    [tasks |-> [ts EXCEPT ![id].status = PROCESSING,
                          ![id].started_at = t,
                          ![id].updated_at = t],
     active |-> Put(act, id, Len(rs) + 1),
     routines |-> Append(rs, NewRoutine(id)),
     ret |-> "started"]

\* execute_task on a stored task: the new store, registry, routines and the
\* value returned
ExecuteTaskOn(ts, act, rs, id, t) ==
    IF ts[id].status = PROCESSING
    THEN [tasks |-> ts, active |-> act, routines |-> rs, ret |-> "already_running"]
    ELSE [tasks |-> [ts EXCEPT ![id].status = PROCESSING,
                               ![id].started_at = t,
                               ![id].updated_at = t],
          active |-> Put(act, id, Len(rs) + 1),
          routines |-> Append(rs, NewRoutine(id)),
          ret |-> "started"]

\* a start that needs a new routine is taken only while routines are left
CanStart(ts, rs, id) == ts[id].status = PROCESSING \/ Len(rs) < MaxRoutines

\* create_task while fewer than cap tasks are stored; uuid4 gives an id
\* that no stored task has: ids are handed out as 1, 2, ...
CreateTaskUpTo(req, cap) ==
    LET id == Len(tasks) + 1
        ts == Append(tasks, TaskResponse(id, req, now))
        ex == ExecuteTaskOn(ts, active_tasks, routines, id, now)
    IN  /\ Len(tasks) < cap
        /\ IF req.auto_execute
           THEN /\ CanStart(ts, routines, id)
                /\ tasks' = ex.tasks
                /\ active_tasks' = ex.active
                /\ routines' = ex.routines
           ELSE /\ tasks' = ts
                /\ UNCHANGED <<active_tasks, routines>>
        /\ last' = [op |-> "create", id |-> id, ret |-> "created", was |-> "none",
                     auto_execute |-> req.auto_execute]
        /\ UNCHANGED <<task_history, appended, now>>

create_task(req) == CreateTaskUpTo(req, MaxTasks)

execute_task(id) ==
    /\ Known(id)
    /\ CanStart(tasks, routines, id)
    /\ LET ex == ExecuteTaskOn(tasks, active_tasks, routines, id, now)
       IN  /\ tasks' = ex.tasks
           /\ active_tasks' = ex.active
           /\ routines' = ex.routines
           /\ last' = [op |-> "start", id |-> id, ret |-> ex.ret,
                     was |-> tasks[id].status]
    /\ UNCHANGED <<task_history, appended, now>>

\* an except clause that files a FAILED task under the id it was given
ExecuteTaskError_Store(ts, id, t) ==
    IF id \in 1..Len(ts)
    THEN [ts EXCEPT ![id].status = FAILED, ![id].error_message = "not found", ![id].updated_at = t]
    ELSE Append(ts, [TaskResponse(id, [priority |-> MEDIUM, steps |-> <<>>], t)
                        EXCEPT !.status = FAILED, !.error_message = "not found"])

\* the except clause of execute_task (lines 105-112): the store it leaves
ExecuteTaskError(ts, id, t) ==
    IF id \in 1..Len(ts)
    THEN [ts EXCEPT ![id].status = FAILED, ![id].error_message = "not found", ![id].updated_at = t]
    ELSE ts

\* the ValueError of execute_task and cancel_task for an unknown id, raised
\* before anything is written; execute_task passes it through its except
\* clause, cancel_task only logs it, and both re-raise
NotFound(op, id) ==
    /\ ~Known(id)
    /\ tasks' = IF op = "start" THEN ExecuteTaskError(tasks, id, now) ELSE tasks
    /\ last' = [op |-> op, id |-> id, ret |-> "NotFound", was |-> "none"]
    /\ UNCHANGED <<active_tasks, task_history, appended, routines, now>>

get_task(id) ==
    /\ last' = [op |-> "get", id |-> id, ret |-> IF Known(id) THEN "task" ELSE "None",
                was |-> "none"]
    /\ UNCHANGED <<tasks, active_tasks, task_history, appended, routines, now>>

\* ------------------------------------------------------------- cancel_task
\* execution_task.cancel(): a pending cancellation on the routine
Cancel(rs, r) == [rs EXCEPT ![r].must_cancel = TRUE]

\* cancel_task without the write of updated_at (line 392 left out)
CancelTaskOn_KeepUpdatedAt(ts, act, rs, id, t) ==
    [tasks |-> [ts EXCEPT ![id].status = CANCELLED],
     active |-> IF id \in DOMAIN act THEN Del(act, id) ELSE act,
     routines |-> IF id \in DOMAIN act THEN Cancel(rs, act[id]) ELSE rs,
     ret |-> "cancelled"]

\* cancel_task that cancels the routine but leaves its handle registered
\* (line 388 left out)
CancelTaskOn_KeepHandle(ts, act, rs, id, t) ==
    [tasks |-> [ts EXCEPT ![id].status = CANCELLED, ![id].updated_at = t],
     active |-> act,
     routines |-> IF id \in DOMAIN act THEN Cancel(rs, act[id]) ELSE rs,
     ret |-> "cancelled"]

\* cancel_task (lines 380-395) on a stored task
CancelTaskOn(ts, act, rs, id, t) ==
    [tasks |-> [ts EXCEPT ![id].status = CANCELLED, ![id].updated_at = t],
     active |-> IF id \in DOMAIN act THEN Del(act, id) ELSE act,
     routines |-> IF id \in DOMAIN act THEN Cancel(rs, act[id]) ELSE rs,
     ret |-> "cancelled"]

cancel_task(id) ==
    /\ Known(id)
    /\ LET ca == CancelTaskOn(tasks, active_tasks, routines, id, now)
       IN  /\ tasks' = ca.tasks
           /\ active_tasks' = ca.active
           /\ routines' = ca.routines
           /\ last' = [op |-> "cancel", id |-> id, ret |-> ca.ret,
                     was |-> tasks[id].status]
    /\ UNCHANGED <<task_history, appended, now>>

\* ----------------------------------------------------- _execute_task_steps
\* _execute_step never raises for a handler failure: it catches the
\* handler's exception and returns a dict with success False
ExecuteStepResult(kind) == IF kind = "bad" THEN "failure" ELSE "success"

\* the success branch of a loop that walks the list back to front
StepCompleted_Reversed(T, i, c, t) ==
    [T EXCEPT !.steps[Len(T.steps) + 1 - i].status = COMPLETED,
              !.steps[Len(T.steps) + 1 - i].result = ExecuteStepResult(T.steps[i].kind),
              !.progress = Ratio(c, Len(T.steps)),
              !.completed_steps = c,
              !.updated_at = t]

\* the success branch without the write of progress (line 140 left out)
StepCompleted_KeepProgress(T, i, c, t) ==
    [T EXCEPT !.steps[i].status = COMPLETED,
              !.steps[i].result = ExecuteStepResult(T.steps[i].kind),
              !.completed_steps = c,
              !.updated_at = t]

\* the success branch of the loop body, with the routine's counter c
\* already incremented
StepCompleted(T, i, c, t) ==
    [T EXCEPT !.steps[i].status = COMPLETED,
              !.steps[i].result = ExecuteStepResult(T.steps[i].kind),
              !.progress = Ratio(c, Len(T.steps)),
              !.completed_steps = c,
              !.updated_at = t]

\* the except branch without the write of updated_at (line 155 left out)
StepFailed_KeepUpdatedAt(T, i, f, t) ==
    [T EXCEPT !.steps[i].status = FAILED,
              !.steps[i].error_message = TRUE,
              !.failed_steps = f]

\* the except branch of the loop body, with the routine's counter f
\* already incremented
StepFailed(T, i, f, t) ==
    [T EXCEPT !.steps[i].status = FAILED,
              !.steps[i].error_message = TRUE,
              !.failed_steps = f,
              !.updated_at = t]

\* the policy with "half or more failed" in the place of "more than half"
should_continue_after_failure_AtHalf(T, failed_step) ==
    IF failed_step.critical THEN FALSE
    ELSE IF 2 * T.failed_steps >= Len(T.steps) THEN FALSE
    ELSE IF T.priority = HIGH /\ T.failed_steps > 2 THEN FALSE
    ELSE TRUE

\* failed_steps / len(steps) > 0.5 on ints
should_continue_after_failure(T, failed_step) ==
    IF failed_step.critical THEN FALSE
    ELSE IF 2 * T.failed_steps > Len(T.steps) THEN FALSE
    ELSE IF T.priority = HIGH /\ T.failed_steps > 2 THEN FALSE
    ELSE TRUE

\* the statements after the loop with "nothing completed" counted as FAILED
FinalStatus_NothingCompleted(T, c, f, t) ==
    [T EXCEPT !.completed_at = t,
              !.updated_at = t,
              !.status = IF c > 0 THEN COMPLETED ELSE FAILED,
              !.success_rate = IF c > 0 THEN Ratio(c, Len(T.steps)) ELSE Zero,
              !.pending_steps = Len(T.steps) - c - f]

\* the statements after the loop with a partial success counted as FAILED
FinalStatus_PartialFailed(T, c, f, t) ==
    [T EXCEPT !.completed_at = t,
              !.updated_at = t,
              !.status = IF f = 0 THEN COMPLETED ELSE FAILED,
              !.success_rate = IF f = 0 THEN One
                               ELSE IF c > 0 THEN Ratio(c, Len(T.steps)) ELSE Zero,
              !.pending_steps = Len(T.steps) - c - f]

\* the statements after the loop without the write of pending_steps
FinalStatus_KeepPending(T, c, f, t) ==
    [T EXCEPT !.completed_at = t,
              !.updated_at = t,
              !.status = IF f = 0 THEN COMPLETED
                         ELSE IF c > 0 THEN COMPLETED ELSE FAILED,
              !.success_rate = IF f = 0 THEN One
                               ELSE IF c > 0 THEN Ratio(c, Len(T.steps)) ELSE Zero]

\* the statements after the loop, up to the history append
FinalStatus(T, c, f, t) ==
    [T EXCEPT !.completed_at = t,
              !.updated_at = t,
              !.status = IF f = 0 THEN COMPLETED
                         ELSE IF c > 0 THEN COMPLETED ELSE FAILED,
              !.success_rate = IF f = 0 THEN One
                               ELSE IF c > 0 THEN Ratio(c, Len(T.steps)) ELSE Zero,
              !.pending_steps = Len(T.steps) - c - f]

\* a history entry that leaves out completed_at
HistoryEntry_NoCompletedAt(T) ==
    [task_id |-> T.id, status |-> T.status, success_rate |-> T.success_rate,
     completed_at |-> None, step_count |-> Len(T.steps),
     completed_steps |-> T.completed_steps, failed_steps |-> T.failed_steps]

HistoryEntry(T) ==
    [task_id |-> T.id, status |-> T.status, success_rate |-> T.success_rate,
     completed_at |-> T.completed_at, step_count |-> Len(T.steps),
     completed_steps |-> T.completed_steps, failed_steps |-> T.failed_steps]

\* append, then trim to the last cap entries, keeping the first cap instead
AppendTrimmed_KeepOldest(h, entry, cap) ==
    LET h1 == Append(h, entry)
    IN  IF Len(h1) > cap THEN SubSeq(h1, 1, cap) ELSE h1

\* append, then self.task_history[-cap:] when the list is longer than cap
\* (cap >= 1)
AppendTrimmed(h, entry, cap) ==
    LET h1 == Append(h, entry)
    IN  IF Len(h1) > cap
        THEN SubSeq(h1, Len(h1) - cap + 1, Len(h1))
        ELSE h1

add_to_history(h, T) == AppendTrimmed(h, HistoryEntry(T), max_history)

\* an outer except clause that records the error but leaves the status
UnexpectedError_KeepStatus(T, t, msg) ==
    [T EXCEPT !.error_message = msg, !.updated_at = t]

\* the outer except clause
UnexpectedError(T, t, msg) ==
    [T EXCEPT !.status = FAILED, !.error_message = msg, !.updated_at = t]

\* a finally clause that releases nothing
Cleanup_Skip(act, id) == act

\* the finally clause
Cleanup(act, id) == IF id \in DOMAIN act THEN Del(act, id) ELSE act

\* The loop from step i on, until the routine suspends in a handler's sleep
\* or leaves the loop.  A "bad" step does not suspend: its handler raises at
\* once, _execute_step returns, the step is marked and the loop goes on.
RECURSIVE RunSteps(_, _, _, _, _)
RunSteps(T, i, c, f, t) ==
    IF i > Len(T.steps)
    THEN [task |-> T, i |-> i, c |-> c, f |-> f, suspended |-> FALSE]
    ELSE IF T.steps[i].kind = "bad"
    THEN RunSteps(StepCompleted(T, i, c + 1, t), i + 1, c + 1, f, t)
    ELSE [task |-> T, i |-> i, c |-> c, f |-> f, suspended |-> TRUE]

\* The routine r goes on from run (a result of RunSteps, or the state in
\* which the policy stopped the loop) to its next suspension or to its exit.
\* unexpected: an Exception is raised after the loop, outside the per-step
\* try, before the final status is written.
Proceed(r, run, unexpected) ==
    LET id == routines[r].task_id
    IN  IF run.suspended
        THEN /\ tasks' = [tasks EXCEPT ![id] = run.task]
             /\ routines' = [routines EXCEPT ![r].pc = "suspended",
                                             ![r].i = run.i,
                                             ![r].completed_steps = run.c,
                                             ![r].failed_steps = run.f]
             /\ last' = [op |-> "routine", id |-> id, ret |-> "suspended", was |-> tasks[id].status]
             /\ UNCHANGED <<active_tasks, task_history, appended>>
        ELSE /\ routines' = [routines EXCEPT ![r].pc = "done",
                                             ![r].i = run.i,
                                             ![r].completed_steps = run.c,
                                             ![r].failed_steps = run.f]
             /\ active_tasks' = Cleanup(active_tasks, id)
             /\ IF unexpected
                THEN /\ \E e \in ExceptionMessages :
                          tasks' = [tasks EXCEPT ![id] = UnexpectedError(run.task, now, e)]
                     /\ last' = [op |-> "routine", id |-> id, ret |-> "error", was |-> tasks[id].status]
                     /\ UNCHANGED <<task_history, appended>>
                ELSE LET T == FinalStatus(run.task, run.c, run.f, now)
                     IN  /\ tasks' = [tasks EXCEPT ![id] = T]
                         /\ task_history' = add_to_history(task_history, T)
                         /\ appended' = Append(appended, HistoryEntry(T))
                         /\ last' = [op |-> "routine", id |-> id, ret |-> "finished", was |-> tasks[id].status]

\* the event loop runs a scheduled routine for the first time
RoutineBegin(r, unexpected) ==
    /\ routines[r].pc = "scheduled"
    /\ ~routines[r].must_cancel
    /\ Proceed(r, RunSteps(tasks[routines[r].task_id], 1, 0, 0, now), unexpected)
    /\ UNCHANGED now

\* the sleep of the step the routine is suspended in is over
RoutineResume(r, unexpected) ==
    /\ routines[r].pc = "suspended"
    /\ ~routines[r].must_cancel
    /\ LET id == routines[r].task_id
           i  == routines[r].i
           c  == routines[r].completed_steps
           f  == routines[r].failed_steps
           T  == tasks[id]
       IN  IF T.steps[i].kind = "boom"
           THEN LET F == StepFailed(T, i, f + 1, now)
                IN  IF should_continue_after_failure(F, F.steps[i])
                    THEN Proceed(r, RunSteps(F, i + 1, c, f + 1, now), unexpected)
                    ELSE Proceed(r, [task |-> F, i |-> i, c |-> c, f |-> f + 1,
                                     suspended |-> FALSE], unexpected)
           ELSE Proceed(r, RunSteps(StepCompleted(T, i, c + 1, now), i + 1, c + 1, f, now),
                        unexpected)
    /\ UNCHANGED now

\* the event loop delivers the CancelledError of a pending cancellation.  A
\* routine that never ran ends without entering its try; a suspended one
\* gets the error at its await, which no except clause catches (it is not an
\* Exception), and runs the finally clause.
RoutineCancelled(r) ==
    /\ routines[r].pc \in {"scheduled", "suspended"}
    /\ routines[r].must_cancel
    /\ routines' = [routines EXCEPT ![r].pc = "done"]
    /\ active_tasks' = IF routines[r].pc = "suspended"
                       THEN Cleanup(active_tasks, routines[r].task_id)
                       ELSE active_tasks
    /\ last' = [op |-> "routine", id |-> routines[r].task_id, ret |-> "cancelled",
                was |-> tasks[routines[r].task_id].status]
    /\ UNCHANGED <<tasks, task_history, appended, now>>

\* the wall clock advances
Tick ==
    /\ now < MaxClock
    /\ now' = now + 1
    /\ last' = [op |-> "tick", id |-> 0, ret |-> "none", was |-> "none"]
    /\ UNCHANGED <<tasks, active_tasks, task_history, appended, routines>>

\* ----------------------------------------------------------- specification
Init ==
    /\ tasks = <<>>
    /\ active_tasks = <<>>
    /\ task_history = <<>>
    /\ appended = <<>>
    /\ routines = <<>>
    /\ now = 0
    /\ last = [op |-> "init", id |-> 0, ret |-> "none", was |-> "none"]

Next ==
    \/ \E req \in TaskRequest : create_task(req)
    \/ \E id \in TaskIds : execute_task(id)
    \/ \E id \in TaskIds : cancel_task(id)
    \/ \E id \in RequestIds : get_task(id)
    \/ \E id \in RequestIds : \E op \in {"start", "cancel"} : NotFound(op, id)
    \/ \E r \in 1..Len(routines) : RoutineBegin(r, FALSE)
    \/ \E r \in 1..Len(routines) : RoutineResume(r, FALSE)
    \/ \E r \in 1..Len(routines) : RoutineCancelled(r)
    \/ Tick

Spec == Init /\ [][Next]_vars

\* The same system when the statements after the loop may raise an
\* unexpected Exception (the case the outer except clause is written for).
NextFaults ==
    \/ Next
    \/ \E r \in 1..Len(routines) : RoutineBegin(r, TRUE)
    \/ \E r \in 1..Len(routines) : RoutineResume(r, TRUE)

SpecFaults == Init /\ [][NextFaults]_vars

\* The event loop is fair and every sleep of a step handler ends: a routine
\* that can run, resume or take its cancellation eventually does.
RoutineStep ==
    \E r \in 1..Len(routines) :
        RoutineBegin(r, FALSE) \/ RoutineResume(r, FALSE) \/ RoutineCancelled(r)

\* the operations that start, stop and run tasks; reads and the clock
\* change nothing a routine depends on
NextLive ==
    \/ \E req \in TaskRequest : create_task(req)
    \/ \E id \in TaskIds : execute_task(id)
    \/ \E id \in TaskIds : cancel_task(id)
    \/ RoutineStep

SpecLive == Init /\ [][NextLive]_vars /\ WF_vars(RoutineStep)

\* Single uninterrupted runs of longer tasks: one task is created with
\* auto_execute and its routine runs to its end; nobody cancels or restarts.
\* A failing step may carry critical whatever makes it fail.
PolicyStepSpecs == StepSpecs \cup {TaskStep("bad", TRUE)}

PolicyLists == UNION {[1..n -> PolicyStepSpecs] : n \in 1..PolicySteps}

PolicyRequest == [priority : Priorities, steps : PolicyLists, auto_execute : {TRUE}]

NextPolicy ==
    \/ Len(tasks) < MaxTasks /\ \E req \in PolicyRequest : create_task(req)
    \/ \E r \in 1..Len(routines) : RoutineBegin(r, FALSE)
    \/ \E r \in 1..Len(routines) : RoutineResume(r, FALSE)

SpecPolicy == Init /\ [][NextPolicy]_vars

\* The history on its own, with a capacity of HistCap in the place of
\* max_history: entries of finished tasks are appended one after the other.
HistEntries ==
    {HistoryEntry(FinalStatus(TaskResponse(id, req, 0), 0, 0, 0)) :
        id \in 1..HistIds, req \in {[priority |-> MEDIUM, steps |-> <<>>, auto_execute |-> TRUE]}}

HistoryAppend(entry) ==
    /\ Len(appended) < MaxAppends
    /\ task_history' = AppendTrimmed(task_history, entry, HistCap)
    /\ appended' = Append(appended, entry)
    /\ last' = [op |-> "append", id |-> entry.task_id, ret |-> "none", was |-> "none"]
    /\ UNCHANGED <<tasks, active_tasks, routines, now>>

NextHistory == \E entry \in HistEntries : HistoryAppend(entry)

SpecHistory == Init /\ [][NextHistory]_vars

\* Several tasks side by side: short tasks are created, started, run and
\* cancelled in any order; the clock stands still.
StoreLists == UNION {[1..n -> StepSpecs] : n \in 0..StoreSteps}

StoreRequest == [priority : {MEDIUM}, steps : StoreLists, auto_execute : BOOLEAN]

NextStore ==
    \/ Len(tasks) < StoreTasks /\ \E req \in StoreRequest : CreateTaskUpTo(req, StoreTasks)
    \/ \E id \in 1..StoreTasks : execute_task(id)
    \/ \E id \in 1..StoreTasks : cancel_task(id)
    \/ \E r \in 1..Len(routines) : RoutineBegin(r, FALSE)
    \/ \E r \in 1..Len(routines) : RoutineResume(r, FALSE)
    \/ \E r \in 1..Len(routines) : RoutineCancelled(r)

SpecStore == Init /\ [][NextStore]_vars

\* ------------------------------------------------------ OpenRouterProcessor
\* An OCR text is a sequence of words separated by blanks.  Keywords(w) are
\* the patterns of _fallback_analysis that w.lower() contains.
Words == {"Login", "Sign", "in", "research", "Submit", "send", "hello"}

Keywords(w) ==
    CASE w = "Login"    -> {"login"}
      [] w = "research" -> {"search"}
      [] w = "Submit"   -> {"submit"}
      [] w = "send"     -> {"send"}
      [] OTHER          -> {}

OcrTexts == UNION {[1..n -> Words] : n \in 0..MaxWords}

\* pattern in ocr_text.lower()
Contains(ocr_text, pattern) ==
    IF pattern = "sign in"
    THEN \E i \in 1..(Len(ocr_text) - 1) : ocr_text[i] = "Sign" /\ ocr_text[i + 1] = "in"
    ELSE \E i \in 1..Len(ocr_text) : pattern \in Keywords(ocr_text[i])

\* what requests.post and response.json() yield: an exception, a status
\* other than 200, or the decoded body
RequestOutcomes ==
    {"raises", "status_error", "empty_object", "no_choices", "empty_choices",
     "null_content", "text_content", "object_content", "array_content"}

\* _make_request: the body, or None after an exception or an error status
make_request(outcome) ==
    IF outcome \in {"raises", "status_error"} THEN "None" ELSE outcome

Raised == [kind |-> "raised", model_used |-> "none", actions |-> <<>>,
           elements |-> <<>>, confidence |-> Zero, words |-> 0]

\* _fallback_analysis; words is the count reported in "analysis"
fallback_analysis(ocr_text) ==
    LET login  == Contains(ocr_text, "login") \/ Contains(ocr_text, "sign in")
        search == Contains(ocr_text, "search")
        submit == Contains(ocr_text, "submit") \/ Contains(ocr_text, "send")
        actions == (IF login THEN <<"fill_login">> ELSE <<>>)
                   \o (IF search THEN <<"search">> ELSE <<>>)
                   \o (IF submit THEN <<"submit">> ELSE <<>>)
        elements == (IF login THEN <<"username_field", "password_field", "login_button">> ELSE <<>>)
                    \o (IF search THEN <<"search_input">> ELSE <<>>)
                    \o (IF submit THEN <<"submit_button">> ELSE <<>>)
    IN  [kind |-> "result", model_used |-> "fallback_pattern_matching",
         actions |-> IF actions = <<>> THEN <<"analyze", "extract_text">> ELSE actions,
         elements |-> elements, confidence |-> Ratio(1, 2), words |-> Len(ocr_text)]

\* _parse_analysis_response on message.content: None is not a string
\* (TypeError), a JSON array has no get (AttributeError), text that is not
\* JSON is taken as plain text
parse_analysis_response(content) ==
    CASE content = "null_content"   -> Raised
      [] content = "array_content"  -> Raised
      [] content = "text_content"   ->
            [kind |-> "result", model_used |-> "default_model", actions |-> <<>>,
             elements |-> <<>>, confidence |-> Ratio(6, 10), words |-> 0]
      [] content = "object_content" ->
            [kind |-> "result", model_used |-> "default_model", actions |-> <<>>,
             elements |-> <<>>, confidence |-> Ratio(7, 10), words |-> 0]

\* the try block of analyze_screenshot (lines 54-92)
AnalyzeBody(is_bytes, outcome, ocr_text) ==
    IF ~is_bytes THEN Raised
    ELSE LET response == make_request(outcome)
         IN  IF response \notin {"None", "empty_object", "no_choices"}
             THEN IF response = "empty_choices" THEN Raised
                  ELSE parse_analysis_response(response)
             ELSE fallback_analysis(ocr_text)

\* analyze_screenshot whose try block has no except clause
AnalyzeScreenshot_NoExcept(enabled, is_bytes, outcome, ocr_text) ==
    IF ~enabled THEN fallback_analysis(ocr_text)
    ELSE AnalyzeBody(is_bytes, outcome, ocr_text)

\* analyze_screenshot: the dict returned, or Raised
AnalyzeScreenshot(enabled, is_bytes, outcome, ocr_text) ==
    IF ~enabled THEN fallback_analysis(ocr_text)
    ELSE LET r == AnalyzeBody(is_bytes, outcome, ocr_text)
         IN  IF r = Raised THEN fallback_analysis(ocr_text) ELSE r

analyze_screenshot(enabled, is_bytes, outcome, ocr_text) ==
    /\ last' = [op |-> "analyze", id |-> 0, was |-> "none",
                enabled |-> enabled, is_bytes |-> is_bytes,
                outcome |-> outcome, ocr_text |-> ocr_text,
                ret |-> AnalyzeScreenshot(enabled, is_bytes, outcome, ocr_text)]
    /\ UNCHANGED <<tasks, active_tasks, task_history, appended, routines, now>>

\* one call per behaviour: the processor keeps no state between calls
NextAnalyze ==
    /\ last.op = "init"
    /\ \E enabled \in BOOLEAN, is_bytes \in BOOLEAN, outcome \in RequestOutcomes,
          ocr_text \in OcrTexts :
           analyze_screenshot(enabled, is_bytes, outcome, ocr_text)

SpecAnalyze == Init /\ [][NextAnalyze]_vars

\* --------------------------------------------------------- CloudAIProcessor
\* The dict that analyze_screenshot returns, by its keys.  A text is a
\* sequence: the fallback's "analysis" is its fixed sentence with the word
\* count, the empty string is <<>>.
ResultDict(r) ==
    [analysis |-> IF r.model_used = "fallback_pattern_matching"
                  THEN <<"Pattern-based analysis", r.words>>
                  ELSE <<"model analysis">>,
     actions |-> r.actions,
     confidence |-> r.confidence,
     screen_type |-> "unknown",
     elements |-> r.elements,
     processing_time |-> IF r.model_used = "fallback_pattern_matching"
                         THEN Ratio(1, 10) ELSE Zero,
     model_used |-> r.model_used]

\* dict.get(key, default)
Get(d, key, default) == IF key \in DOMAIN d THEN d[key] ELSE default

\* analyze_screen (lines 44-72): _prepare_image raises for bytes that are
\* no image, and the except clause answers with "Analysis failed"
AnalyzeScreen(image_ok, enabled, outcome, ocr_text) ==
    IF ~image_ok
    THEN [analysis |-> <<"Analysis failed">>, actions |-> <<>>, confidence |-> Zero]
    ELSE LET analysis == ResultDict(AnalyzeScreenshot(enabled, TRUE, outcome, ocr_text))
         IN  [analysis |-> Get(analysis, "description", <<>>),
              actions |-> Get(analysis, "suggested_actions", <<>>),
              confidence |-> Get(analysis, "confidence", Zero)]

analyze_screen(image_ok, enabled, outcome, ocr_text) ==
    /\ last' = [op |-> "analyze_screen", id |-> 0, was |-> "none",
                image_ok |-> image_ok, enabled |-> enabled,
                outcome |-> outcome, ocr_text |-> ocr_text,
                analysis |-> AnalyzeScreenshot(enabled, TRUE, outcome, ocr_text),
                ret |-> AnalyzeScreen(image_ok, enabled, outcome, ocr_text)]
    /\ UNCHANGED <<tasks, active_tasks, task_history, appended, routines, now>>

\* one call per behaviour: the processor keeps no state between calls
NextScreen ==
    /\ last.op = "init"
    /\ \E image_ok \in BOOLEAN, enabled \in BOOLEAN, outcome \in RequestOutcomes,
          ocr_text \in OcrTexts :
           analyze_screen(image_ok, enabled, outcome, ocr_text)

SpecScreen == Init /\ [][NextScreen]_vars

\* ------------------------------------------------------- the policy alone
\* _should_continue_after_failure reads task.priority, task.failed_steps,
\* len(task.steps) and the critical parameter of the failed step.  It is
\* called after a step has failed, so failed_steps >= 1 and total >= 1.
PolicyTask(priority, failed_steps, total_steps) ==
    [priority |-> priority, failed_steps |-> failed_steps,
     steps |-> [i \in 1..total_steps |-> TaskStep("boom", FALSE)]]

decide(priority, failed_steps, total_steps, critical) ==
    /\ last' = [op |-> "decide", id |-> 0, was |-> "none",
                priority |-> priority, failed_steps |-> failed_steps,
                total_steps |-> total_steps, critical |-> critical,
                ret |-> should_continue_after_failure(
                            PolicyTask(priority, failed_steps, total_steps),
                            TaskStep("boom", critical))]
    /\ UNCHANGED <<tasks, active_tasks, task_history, appended, routines, now>>

\* one call per behaviour: the policy keeps no state between calls
NextDecide ==
    /\ last.op = "init"
    /\ \E priority \in TaskPriority, total_steps \in 1..DecideSteps, critical \in BOOLEAN :
          \E failed_steps \in 1..total_steps :
              decide(priority, failed_steps, total_steps, critical)

SpecDecide == Init /\ [][NextDecide]_vars

\* ------------------------------------------------------------------ claims
Terminal == {COMPLETED, FAILED, CANCELLED}
StoredIds == 1..Len(tasks)
RoutineIds == 1..Len(routines)

\* a routine that has not exited and has no cancellation pending
Live(r) == routines[r].pc # "done" /\ ~routines[r].must_cancel

StepStatuses(T) == [i \in 1..Len(T.steps) |-> T.steps[i].status]

\* C1: in every reachable state, every stored task has
\* completed_steps + failed_steps + pending_steps = total_steps.
C1_CountersSumToTotal ==
    \A id \in StoredIds :
        tasks[id].completed_steps + tasks[id].failed_steps + tasks[id].pending_steps
            = tasks[id].total_steps

\* C2: once a task's status is terminal, no step of the system changes its
\* status, its counters, started_at, completed_at or its steps' status.
C2_TerminalIsFinal ==
    [][\A id \in StoredIds :
          tasks[id].status \in Terminal =>
              /\ tasks'[id].status = tasks[id].status
              /\ tasks'[id].completed_steps = tasks[id].completed_steps
              /\ tasks'[id].failed_steps = tasks[id].failed_steps
              /\ tasks'[id].pending_steps = tasks[id].pending_steps
              /\ tasks'[id].started_at = tasks[id].started_at
              /\ tasks'[id].completed_at = tasks[id].completed_at
              /\ StepStatuses(tasks'[id]) = StepStatuses(tasks[id])]_vars

\* the status changes of the lifecycle state machine
C3_AllowedTransitions ==
    {<<PENDING, PROCESSING>>, <<PROCESSING, COMPLETED>>,
     <<PROCESSING, FAILED>>, <<PROCESSING, CANCELLED>>}

\* C3: every change of a task's status is PENDING->PROCESSING or
\* PROCESSING->COMPLETED/FAILED/CANCELLED, and a task is created PENDING
\* (PROCESSING when create_task started it before returning).
C3_StatusMachine ==
    [][/\ \A id \in StoredIds :
             tasks'[id].status # tasks[id].status =>
                 <<tasks[id].status, tasks'[id].status>> \in C3_AllowedTransitions
       /\ \A id \in (1..Len(tasks')) \ StoredIds :
             tasks'[id].status \in {PENDING, PROCESSING}]_vars

\* C4: a step whose handler raised is never marked COMPLETED nor counted in
\* completed_steps: it is marked FAILED with its error message, and
\* completed_steps counts only steps whose handler returned.
C4_HandlerFailureMarksFailed ==
    \A id \in StoredIds :
        /\ \A i \in 1..Len(tasks[id].steps) :
              (tasks[id].steps[i].kind = "bad" /\ tasks[id].steps[i].status # PENDING) =>
                  /\ tasks[id].steps[i].status = FAILED
                  /\ tasks[id].steps[i].error_message
        /\ tasks[id].completed_steps <=
              Cardinality({i \in 1..Len(tasks[id].steps) : tasks[id].steps[i].kind = "ok"})

\* C5: right after cancel_task returns for a task that was PROCESSING, the
\* task is CANCELLED and its id is not in active_tasks.
C5_CancelProcessing ==
    [][(last'.op = "cancel" /\ last'.ret = "cancelled"
            /\ tasks[last'.id].status = PROCESSING) =>
          /\ tasks'[last'.id].status = CANCELLED
          /\ last'.id \notin DOMAIN active_tasks']_vars

C5_Witness ==
    /\ last.op = "cancel"
    /\ last.was = PROCESSING
    /\ \E r \in RoutineIds :
          routines[r].task_id = last.id /\ routines[r].must_cancel /\ routines[r].pc # "done"

\* C6: cancel_task on a task that is already terminal leaves its status
\* unchanged.
C6_CancelTerminalKeepsStatus ==
    [][(last'.op = "cancel" /\ last'.ret = "cancelled"
            /\ tasks[last'.id].status \in Terminal) =>
          tasks'[last'.id].status = tasks[last'.id].status]_vars

\* C7: execute_task on a PROCESSING task returns "already_running", makes no
\* routine, leaves the registry as it is and changes no field of the task.
C7_StartWhileProcessing ==
    [][(last'.op = "start" /\ last'.ret # "NotFound"
            /\ tasks[last'.id].status = PROCESSING) =>
          /\ last'.ret = "already_running"
          /\ routines' = routines
          /\ active_tasks' = active_tasks
          /\ tasks' = tasks]_vars

C7_Witness ==
    /\ last.op = "start"
    /\ last.was = PROCESSING
    /\ last.ret = "already_running"
    /\ last.id \in DOMAIN active_tasks
    /\ now > tasks[last.id].updated_at

\* C8: at most one execution routine of a task is live at any time.
C8_OneLiveRoutine ==
    \A id \in StoredIds :
        Cardinality({r \in RoutineIds : routines[r].task_id = id /\ Live(r)}) <= 1

\* C9: every handle in active_tasks is the handle of a routine that has not
\* exited; an exited routine has no handle in the registry.
C9_NoHandleOutlivesRoutine ==
    \A id \in DOMAIN active_tasks :
        /\ active_tasks[id] \in RoutineIds
        /\ routines[active_tasks[id]].task_id = id
        /\ routines[active_tasks[id]].pc # "done"

C9_Witness ==
    /\ last.op = "routine"
    /\ last.ret = "cancelled"
    /\ \E r \in RoutineIds : routines[r].pc = "done" /\ routines[r].task_id = last.id
    /\ last.id \in DOMAIN active_tasks

\* C10: from the start that registers it until it exits or cancel_task is
\* called for its task, a routine stays registered under its task id.
C10_LiveRoutineIsRegistered ==
    \A r \in RoutineIds :
        Live(r) =>
            /\ routines[r].task_id \in DOMAIN active_tasks
            /\ active_tasks[routines[r].task_id] = r

\* the steps of T that have been run (their status was written)
Executed(T) == {i \in 1..Len(T.steps) : T.steps[i].status # PENDING}

\* the steps of T whose execution fails: the handler raises ("bad") or an
\* exception leaves _execute_step ("boom")
Failing(T) == {i \in 1..Len(T.steps) : T.steps[i].kind # "ok"}

\* C11: after a critical step has failed no later step is executed; a run of
\* k successful steps followed by a failing critical step ends with
\* completed_steps = k, failed_steps = 1, pending_steps = n - k - 1 and, when
\* k > 0, status COMPLETED with success_rate = k / n.
C11_CriticalStepHalts ==
    \A id \in StoredIds :
        LET T == tasks[id]
            n == Len(T.steps)
        IN  \A i \in Failing(T) \cap Executed(T) :
                (T.steps[i].critical /\ \A j \in 1..(i - 1) : T.steps[j].kind = "ok") =>
                    /\ \A j \in (i + 1)..n : T.steps[j].status = PENDING
                    /\ (last.op = "routine" /\ last.ret = "finished") =>
                          /\ T.completed_steps = i - 1
                          /\ T.failed_steps = 1
                          /\ T.pending_steps = n - i
                          /\ (i > 1) => /\ T.status = COMPLETED
                                        /\ RatioEq(T.success_rate, Ratio(i - 1, n))

\* C12: a HIGH-priority task executes no step after its 3rd non-critical
\* step failure, whatever the failure ratio; a MEDIUM-priority task with
\* three non-critical failures in at least six steps runs every step.
C12_HighPriorityBudget ==
    \A id \in StoredIds :
        LET T == tasks[id]
            n == Len(T.steps)
            NonCritical == {i \in Failing(T) : ~T.steps[i].critical}
        IN  /\ T.priority = HIGH =>
                  \A j \in 1..n :
                      Cardinality({i \in NonCritical \cap Executed(T) : i < j}) >= 3 =>
                          T.steps[j].status = PENDING
            /\ (/\ T.priority = MEDIUM
                /\ last.op = "routine" /\ last.ret = "finished"
                /\ Failing(T) = NonCritical
                /\ Cardinality(NonCritical) = 3
                /\ n >= 6) =>
                  Executed(T) = 1..n

\* the routine of task id has just run the statements after its loop
Finished(id) == last.op = "routine" /\ last.ret = "finished" /\ last.id = id

\* C13: a started task in which no step completes successfully, such as a
\* single-step task whose only step fails, ends with status FAILED,
\* success_rate 0.0 and completed_at set.
C13_AllFailPath ==
    \A id \in StoredIds :
        LET T == tasks[id]
        IN  (/\ Finished(id)
             /\ Len(T.steps) >= 1
             /\ \A i \in Executed(T) : T.steps[i].kind # "ok") =>
                /\ T.status = FAILED
                /\ T.success_rate = Zero
                /\ T.completed_at # None

\* C14: a task with n >= 1 steps created with auto_execute whose steps all
\* succeed and which is never cancelled ends with status COMPLETED,
\* completed_steps = n, failed_steps = 0, pending_steps = 0, progress = 1
\* and success_rate = 1.0.
C14_AllSuccessPath ==
    \A id \in StoredIds :
        LET T == tasks[id]
            n == Len(T.steps)
        IN  (/\ Finished(id)
             /\ n >= 1
             /\ \A i \in 1..n : T.steps[i].kind = "ok") =>
                /\ T.status = COMPLETED
                /\ T.completed_steps = n
                /\ T.failed_steps = 0
                /\ T.pending_steps = 0
                /\ RatioEq(T.progress, One)
                /\ T.success_rate = One

\* a task of several steps, all successful, has just ended
C14_Witness ==
    \E id \in StoredIds :
        /\ Finished(id)
        /\ Len(tasks[id].steps) = PolicySteps
        /\ \A i \in 1..PolicySteps : tasks[id].steps[i].kind = "ok"
        /\ tasks[id].status = COMPLETED
        /\ tasks[id].pending_steps = 0

\* the last n entries of the sequence s
LastOf(s, n) == SubSeq(s, Len(s) - n + 1, Len(s))

Min(a, b) == IF a < b THEN a ELSE b

\* C15: the history never holds more than its capacity N, and after any
\* number of appends it is exactly the min(N, count) most recently appended
\* entries in append order.
C15_HistoryBound ==
    /\ Len(task_history) <= HistCap
    /\ task_history = LastOf(appended, Min(HistCap, Len(appended)))

\* more entries than the capacity have been appended and the oldest are gone
C15_Witness ==
    /\ Len(appended) > HistCap + 1
    /\ Len(task_history) = HistCap
    /\ appended[1] # appended[Len(appended)]
    /\ task_history[HistCap] = appended[Len(appended)]

\* C16: cancel and start of an id that is not in the store fail with
\* NotFound, get of such an id yields the not-found result, and each leaves
\* the task store, the in-flight registry and the history unchanged.
C16_UnknownIdLeavesState ==
    [][(last'.op \in {"start", "cancel", "get"} /\ ~Known(last'.id)) =>
          /\ last'.ret = (IF last'.op = "get" THEN "None" ELSE "NotFound")
          /\ UNCHANGED <<tasks, active_tasks, task_history, routines>>]_vars

\* an unknown id has been started or cancelled while a task is stored and
\* its routine is registered
C16_Witness ==
    /\ last.op \in {"start", "cancel"}
    /\ last.ret = "NotFound"
    /\ ~Known(last.id)
    /\ Len(tasks) > 0
    /\ DOMAIN active_tasks # {}

\* a / b lies in [0, 1]
InUnit(r) == 0 <= r[1] /\ r[1] <= r[2]

\* C17: every task with total_steps > 0 has
\* progress == completed_steps / total_steps and 0 <= progress <= 1.
C17_ProgressIsCompletedFraction ==
    \A id \in StoredIds :
        LET T == tasks[id]
        IN  T.total_steps > 0 =>
                /\ RatioEq(T.progress, Ratio(T.completed_steps, T.total_steps))
                /\ InUnit(T.progress)

\* a running task has completed one of its two steps
C17_Witness ==
    \E id \in StoredIds :
        /\ tasks[id].status = PROCESSING
        /\ tasks[id].total_steps = 2
        /\ tasks[id].completed_steps = 1
        /\ tasks[id].progress = Ratio(1, 2)

\* C18: every task in a terminal state has
\* success_rate == completed_steps / total_steps, and success_rate is in
\* [0, 1] in every state.
C18_SuccessRateIsCompletedFraction ==
    \A id \in StoredIds :
        LET T == tasks[id]
        IN  /\ InUnit(T.success_rate)
            /\ (T.status \in Terminal /\ T.total_steps > 0) =>
                    RatioEq(T.success_rate, Ratio(T.completed_steps, T.total_steps))

\* C19: started_at and completed_at are each assigned at most once: once
\* set, no later start, step or cancel changes their value.
C19_TimestampsSetOnce ==
    [][\A id \in StoredIds :
          /\ tasks[id].started_at # None => tasks'[id].started_at = tasks[id].started_at
          /\ tasks[id].completed_at # None => tasks'[id].completed_at = tasks[id].completed_at]_vars

\* the status and the counters of a task
StatusAndCounters(T) ==
    <<T.status, T.completed_steps, T.failed_steps, T.pending_steps>>

\* C20: with a non-decreasing clock, updated_at never decreases and is
\* always >= created_at, and every operation that changes the status or
\* the counters of a task sets its updated_at to the current clock value.
C20_UpdatedAtFollowsClock ==
    [][/\ now' >= now
       /\ \A id \in StoredIds :
             /\ tasks[id].updated_at >= tasks[id].created_at
             /\ tasks'[id].updated_at >= tasks'[id].created_at
             /\ tasks'[id].updated_at >= tasks[id].updated_at
             /\ StatusAndCounters(tasks'[id]) # StatusAndCounters(tasks[id]) =>
                    tasks'[id].updated_at = now']_vars

\* a step has failed in the routine after the clock has moved on
C20_Witness ==
    \E id \in StoredIds :
        /\ last.op = "routine" /\ last.id = id /\ last.ret # "cancelled"
        /\ tasks[id].failed_steps > 0
        /\ tasks[id].updated_at = now
        /\ tasks[id].updated_at > tasks[id].created_at

\* C21: create stores the new task under an id that no stored task has,
\* with total_steps = pending_steps = number of steps, completed_steps =
\* failed_steps = 0, progress = 0 and success_rate = 0; without auto_execute
\* it is PENDING with no registry entry, with auto_execute it is PROCESSING
\* with its handle registered; the tasks stored before are unchanged.
C21_CreateStoresNewTask ==
    [][last'.op = "create" =>
          LET id == last'.id
              T  == tasks'[id]
          IN  /\ ~Known(id)
              /\ DOMAIN tasks' = DOMAIN tasks \cup {id}
              /\ \A j \in StoredIds : tasks'[j] = tasks[j]
              /\ T.total_steps = Len(T.steps) /\ T.pending_steps = Len(T.steps)
              /\ T.completed_steps = 0 /\ T.failed_steps = 0
              /\ T.progress = Zero /\ T.success_rate = Zero
              /\ IF last'.auto_execute
                 THEN /\ T.status = PROCESSING
                      /\ id \in DOMAIN active_tasks'
                      /\ routines'[active_tasks'[id]].task_id = id
                 ELSE /\ T.status = PENDING
                      /\ id \notin DOMAIN active_tasks'
                      /\ active_tasks' = active_tasks]_vars

\* a second task has just been created with auto_execute next to a first
\* one that has run
C21_Witness ==
    /\ last.op = "create" /\ last.id = 2 /\ last.auto_execute
    /\ tasks[1].status \in Terminal
    /\ tasks[2].status = PROCESSING
    /\ tasks[2].total_steps = StoreSteps
    /\ 2 \in DOMAIN active_tasks

\* C22: start on a PENDING task sets status PROCESSING, sets started_at and
\* updated_at, registers the handle of the new routine under the task id and
\* returns "started" before any step has been executed: when start returns
\* every step is still PENDING and completed_steps = failed_steps = 0.
C22_StartReturnsBeforeSteps ==
    [][(last'.op = "start" /\ last'.was = PENDING) =>
          LET id == last'.id
              T  == tasks'[id]
          IN  /\ last'.ret = "started"
              /\ T.status = PROCESSING
              /\ T.started_at = now /\ T.updated_at = now
              /\ id \in DOMAIN active_tasks'
              /\ active_tasks'[id] = Len(routines) + 1
              /\ routines'[active_tasks'[id]] = NewRoutine(id)
              /\ \A i \in 1..Len(T.steps) : T.steps[i].status = PENDING
              /\ T.completed_steps = 0 /\ T.failed_steps = 0]_vars

\* a PENDING task of two steps has just been started, after the clock has
\* moved on since its creation
C22_Witness ==
    /\ last.op = "start" /\ last.was = PENDING /\ last.ret = "started"
    /\ Known(last.id)
    /\ Len(tasks[last.id].steps) = 2
    /\ tasks[last.id].started_at > tasks[last.id].created_at
    /\ last.id \in DOMAIN active_tasks

\* the step counters of a task
Counters(T) == <<T.total_steps, T.completed_steps, T.failed_steps, T.pending_steps>>

\* C23: cancel_task on a task that was never started (PENDING, no handle
\* registered) sets its status to CANCELLED and its updated_at to the clock,
\* and leaves the in-flight registry and the step counters unchanged.
C23_CancelNeverStarted ==
    [][(last'.op = "cancel" /\ last'.was = PENDING) =>
          LET id == last'.id
          IN  /\ id \notin DOMAIN active_tasks
              /\ tasks'[id].status = CANCELLED
              /\ tasks'[id].updated_at = now
              /\ active_tasks' = active_tasks
              /\ routines' = routines
              /\ Counters(tasks'[id]) = Counters(tasks[id])]_vars

\* a task that was never started has just been cancelled, after the clock
\* has moved on since its creation
C23_Witness ==
    /\ last.op = "cancel" /\ last.was = PENDING
    /\ Known(last.id)
    /\ tasks[last.id].status = CANCELLED
    /\ tasks[last.id].started_at = None
    /\ tasks[last.id].updated_at > tasks[last.id].created_at
    /\ tasks[last.id].pending_steps = 2

\* C24: when the routine raises an unexpected error outside the per-step
\* handling, the task ends with status FAILED and a non-empty
\* error_message, and its handle is removed from the in-flight registry.
C24_UnexpectedErrorFailsTask ==
    \A id \in StoredIds :
        (last.op = "routine" /\ last.ret = "error" /\ last.id = id) =>
            /\ tasks[id].status = FAILED
            /\ tasks[id].error_message \notin {NoMessage, ""}
            /\ id \notin DOMAIN active_tasks

\* C24 as the code has it: after an unexpected error outside the per-step
\* handling the task is FAILED, its error_message is set to str(e), which
\* may be the empty string, and no handle is registered under its id.
C24_FailedAndReleased ==
    \A id \in StoredIds :
        (last.op = "routine" /\ last.ret = "error" /\ last.id = id) =>
            /\ tasks[id].status = FAILED
            /\ tasks[id].error_message # NoMessage
            /\ id \notin DOMAIN active_tasks

\* a running task that had completed a step was failed by an unexpected
\* error whose text is empty, and its handle is gone
C24_Witness ==
    \E id \in StoredIds :
        /\ last.op = "routine" /\ last.ret = "error" /\ last.id = id
        /\ last.was = PROCESSING
        /\ tasks[id].completed_steps > 0
        /\ tasks[id].status = FAILED
        /\ tasks[id].error_message = ""
        /\ id \notin DOMAIN active_tasks

\* the request gives no valid response or raises
Unanswered(outcome) ==
    outcome \in {"raises", "status_error", "empty_object", "no_choices"}

\* C25: when the remote model is disabled, the request returns no valid
\* response or the request raises, analyze_screenshot returns the result of
\* the local pattern matching and never raises; the fallback gives a result
\* for every OCR text, the empty one included.
C25_FallbackOnDegradation ==
    last.op = "analyze" =>
        /\ last.ret.kind = "result"
        /\ (~last.enabled \/ Unanswered(last.outcome)) =>
              /\ last.ret = fallback_analysis(last.ocr_text)
              /\ last.ret.model_used = "fallback_pattern_matching"
              /\ Len(last.ret.actions) > 0
              /\ last.ret.words = Len(last.ocr_text)

\* the request of an enabled processor raised and the pattern matching
\* found the login form in the text
C25_Witness ==
    /\ last.op = "analyze"
    /\ last.enabled /\ last.is_bytes /\ last.outcome = "raises"
    /\ Len(last.ocr_text) = MaxWords
    /\ last.ret.model_used = "fallback_pattern_matching"
    /\ last.ret.actions = <<"fill_login">>

\* the routines that leave their step loop and run to their end in this step
Finishing == {r \in RoutineIds : routines[r].pc # "done" /\ routines'[r].pc = "done"}

\* C26: when a routine leaves its step loop the final status and
\* success_rate follow from its counters alone: failed = 0 gives COMPLETED
\* and 1.0; failed > 0 and completed > 0 gives COMPLETED and
\* completed/total; completed = 0 and failed > 0 gives FAILED and 0.0; and
\* pending_steps is total - completed - failed.
C26_FinalStatusFromCounters ==
    [][(last'.op = "routine" /\ last'.ret = "finished") =>
          /\ Finishing # {}
          /\ \A r \in Finishing :
                LET c == routines'[r].completed_steps
                    f == routines'[r].failed_steps
                    T == tasks'[routines[r].task_id]
                IN  /\ f = 0 => T.status = COMPLETED /\ T.success_rate = One
                    /\ (f > 0 /\ c > 0) =>
                          /\ T.status = COMPLETED
                          /\ RatioEq(T.success_rate, Ratio(c, T.total_steps))
                    /\ (f > 0 /\ c = 0) => T.status = FAILED /\ T.success_rate = Zero
                    /\ T.pending_steps = T.total_steps - c - f]_vars

\* a run with one completed and one failed step has just ended as a
\* partial success
C26_Witness ==
    \E id \in StoredIds :
        /\ Finished(id)
        /\ tasks[id].completed_steps = 1 /\ tasks[id].failed_steps = 1
        /\ tasks[id].status = COMPLETED
        /\ tasks[id].success_rate = Ratio(1, 2)
        /\ tasks[id].pending_steps = 0

\* C27: the policy equals the reference rule on every input: stop if the
\* failed step is critical; else stop if failed_steps/total_steps > 0.5,
\* strictly; else stop if the priority is HIGH and failed_steps > 2; else
\* continue.  URGENT, MEDIUM and LOW never trigger the third rule.
C27_PolicyIsReferenceRule ==
    last.op = "decide" =>
        LET stop == \/ last.critical
                    \/ 2 * last.failed_steps > last.total_steps
                    \/ last.priority = HIGH /\ last.failed_steps >= 3
        IN  /\ last.ret = ~stop
            /\ (/\ last.priority \in {URGENT, MEDIUM, LOW}
                /\ ~last.critical
                /\ 2 * last.failed_steps <= last.total_steps) => last.ret

\* the third rule alone stops a HIGH-priority task: 3 failures of 7 steps
C27_Witness ==
    /\ last.op = "decide"
    /\ last.priority = HIGH /\ ~last.critical
    /\ last.failed_steps = 3 /\ last.total_steps = DecideSteps
    /\ ~last.ret

\* C28: with a fair scheduler and steps that finish, every task that enters
\* PROCESSING eventually has a terminal status, and eventually the
\* in-flight registry has no entry for it.
C28_ProcessingEnds ==
    \A id \in TaskIds :
        /\ (Known(id) /\ tasks[id].status = PROCESSING) ~>
               (Known(id) /\ tasks[id].status \in Terminal)
        /\ (Known(id) /\ tasks[id].status = PROCESSING) ~>
               (id \notin DOMAIN active_tasks)

\* a task of two steps that was PROCESSING has been run to its end and its
\* handle is gone
C28_Witness ==
    \E id \in StoredIds :
        /\ Finished(id) /\ last.was = PROCESSING
        /\ Len(tasks[id].steps) = 2
        /\ tasks[id].status \in Terminal
        /\ id \notin DOMAIN active_tasks

\* the steps of T that are still PENDING
PendingSteps(T) == {i \in 1..Len(T.steps) : T.steps[i].status = PENDING}

\* the executed steps of T are the first steps of its list
ExecutedIsPrefix(T) ==
    \A i, j \in 1..Len(T.steps) : (i < j /\ j \in Executed(T)) => i \in Executed(T)

\* C29: steps are processed in list order: the steps whose status is not
\* PENDING form a prefix of the step sequence, and when the policy stops a
\* run after a failure every step after the failed one is still PENDING and
\* is counted in pending_steps.
C29_StepsInListOrder ==
    [][/\ \A id \in StoredIds : ExecutedIsPrefix(tasks[id])
       /\ \A id \in DOMAIN tasks' : ExecutedIsPrefix(tasks'[id])
       /\ \A r \in Finishing :
             LET T == tasks'[routines[r].task_id]
                 i == routines'[r].i
             IN  (last'.ret = "finished" /\ i <= Len(T.steps)) =>
                     /\ T.steps[i].status = FAILED
                     /\ PendingSteps(T) = (i + 1)..Len(T.steps)
                     /\ T.pending_steps = Cardinality(PendingSteps(T))]_vars

\* the policy has stopped a run at its first step and the second step is
\* still PENDING and counted
C29_Witness ==
    \E id \in StoredIds :
        /\ Finished(id)
        /\ Len(tasks[id].steps) = 2
        /\ tasks[id].steps[1].status = FAILED
        /\ PendingSteps(tasks[id]) = {2}
        /\ tasks[id].pending_steps = 1

\* C30: a task's id is in the in-flight registry if and only if the task's
\* status is PROCESSING, so the in-flight count of the stats equals the
\* number of PROCESSING tasks.
C30_RegisteredIffProcessing ==
    /\ \A id \in StoredIds :
          id \in DOMAIN active_tasks <=> tasks[id].status = PROCESSING
    /\ Cardinality(DOMAIN active_tasks) =
          Cardinality({id \in StoredIds : tasks[id].status = PROCESSING})

\* one direction of C30: a registered task is PROCESSING
C30_RegisteredIsProcessing ==
    \A id \in StoredIds : id \in DOMAIN active_tasks => tasks[id].status = PROCESSING

\* what a routine writes to a task
RunFields(T) == <<T.status, T.completed_steps, T.failed_steps, T.progress, StepStatuses(T)>>

\* C31: after cancel_task on a PROCESSING task, and until the task is
\* started again, the cancelled run changes nothing: the status stays
\* CANCELLED, completed_steps, failed_steps, progress and the step statuses
\* keep their values, and no history entry is appended.
C31_CancelledRunIsSilent ==
    [][\A id \in StoredIds :
          (tasks[id].status = CANCELLED /\ last'.op = "routine" /\ last'.id = id) =>
              /\ RunFields(tasks'[id]) = RunFields(tasks[id])
              /\ task_history' = task_history]_vars

\* the steps of T with status s
StepsWithStatus(T, s) == {i \in 1..Len(T.steps) : T.steps[i].status = s}

\* C32: a task's completed_steps is the number of its steps whose status is
\* COMPLETED and its failed_steps the number of its steps whose status is
\* FAILED.
C32_CountersMatchStepStatuses ==
    \A id \in StoredIds :
        /\ tasks[id].completed_steps = Cardinality(StepsWithStatus(tasks[id], COMPLETED))
        /\ tasks[id].failed_steps = Cardinality(StepsWithStatus(tasks[id], FAILED))

C34_EmptyStepList ==
    [][\A r \in RoutineIds :
          LET id == routines[r].task_id
          IN  (/\ Len(tasks[id].steps) = 0
               /\ routines[r].pc = "scheduled"
               /\ routines'[r].pc # "scheduled"
               /\ ~routines[r].must_cancel) =>
                  /\ last'.ret = "finished"
                  /\ routines'[r].pc = "done"
                  /\ tasks'[id].status = COMPLETED
                  /\ tasks'[id].success_rate = One
                  /\ tasks'[id].progress = Zero
                  /\ Counters(tasks'[id]) = <<0, 0, 0, 0>>
                  /\ task_history' = Append(task_history, HistoryEntry(tasks'[id]))
                  /\ id \notin DOMAIN active_tasks']_vars

\* the run of a task without steps has just ended
C34_Witness ==
    \E id \in StoredIds :
        /\ Finished(id) /\ last.was = PROCESSING
        /\ Len(tasks[id].steps) = 0
        /\ tasks[id].status = COMPLETED
        /\ Len(task_history) = 1
        /\ id \notin DOMAIN active_tasks

\* C35: when the suggestion engine answers with its local fallback, the
\* analysis that analyze_screen returns carries the fallback's description
\* text and its list of suggested actions.
C35_FallbackReachesCaller ==
    (/\ last.op = "analyze_screen"
     /\ last.image_ok
     /\ last.analysis.model_used = "fallback_pattern_matching") =>
        /\ last.ret.analysis = ResultDict(last.analysis).analysis
        /\ last.ret.actions = last.analysis.actions

\* what of the fallback's answer does reach the caller: its confidence
C35_ConfidenceReachesCaller ==
    (/\ last.op = "analyze_screen"
     /\ last.image_ok
     /\ last.analysis.model_used = "fallback_pattern_matching") =>
        last.ret.confidence = last.analysis.confidence

====
